---- MODULE Spec2Model ----
(***************************************************************************)
(* Model of dumb-code-analyzer (src/src/main.rs): the recursive directory  *)
(* walker search_in_dir, its per-file line loop and the character          *)
(* automaton that turns one annotation line into (http_verb, rest_path).   *)
(*                                                                         *)
(* A character is a one-character string; a line, a file name and the      *)
(* automaton's buffers are sequences of characters.  Eacute stands for a   *)
(* character whose UTF-8 encoding takes two bytes.                         *)
(***************************************************************************)
EXTENDS Integers, Sequences, FiniteSets, TLC

VARIABLES
    \* ---- the line automaton (main.rs 201-300) ----
    line,                    \* the line being processed
    index,                   \* number of characters of line already consumed
    cur_context,             \* Contexts: state of the automaton
    str_buffer,              \* the accumulation buffer
    prev_c,                  \* the previous character
    endpoint_path,           \* the captured path
    http_verb,               \* the verb found
    pc,                      \* where the control is
    panic_msg,               \* the message of the panic, when pc = "panic"
    request_search_results,  \* the matches pushed for the file being scanned
    \* ---- the line loop of one file (main.rs 192-305) ----
    file_lines,              \* file_data.split('\n')
    line_no,                 \* number of lines of file_lines already consumed
    match_lines,             \* history: the line number each match came from
    \* ---- the walker (main.rs 117-311) ----
    root,                    \* the directory named by -mapdir
    cwd,                     \* where the tree is being populated, before main
    stack,                   \* the active calls of search_in_dir, innermost last
    results,                 \* what search_in_dir returned to main
    stdout,                  \* what println! has written
    opened                   \* history: the paths given to File::open

parserVars == <<line, index, cur_context, str_buffer, prev_c, endpoint_path,
                http_verb>>
fileVars == <<file_lines, line_no, match_lines>>
walkVars == <<root, cwd, stack, results, stdout, opened>>
vars == <<line, index, cur_context, str_buffer, prev_c, endpoint_path,
          http_verb, pc, panic_msg, request_search_results,
          file_lines, line_no, match_lines,
          root, cwd, stack, results, stdout, opened>>

(***************************************************************************)
(* Bounds of the model.                                                    *)
(***************************************************************************)
MaxTail == 4        \* characters that follow the annotation name on a line
MaxLines == 3       \* lines of a file
MaxNodes == 3       \* files and directories below the root directory

(***************************************************************************)
(* Characters.                                                             *)
(***************************************************************************)
Nul == "NUL"                \* '\0', the initial prev_c
Eacute == "U+00E9"          \* a two-byte character, alphabetic

Letters ==
    {"a","b","c","d","e","f","g","h","i","j","k","l","m","n","o","p","q",
     "r","s","t","u","v","w","x","y","z",
     "A","B","C","D","E","F","G","H","I","J","K","L","M","N","O","P","Q",
     "R","S","T","U","V","W","X","Y","Z"}

\* char::is_whitespace, also what str::trim strips
IsWhitespace(c) == c \in {" ", "\t", "\r"}

\* the regex class \w (Unicode aware)
IsWord(c) == c \in Letters \cup {"_", Eacute}

\* number of bytes of the UTF-8 encoding of c
Utf8Len(c) == IF c = Eacute THEN 2 ELSE 1

RECURSIVE ByteLen(_)
\* str::len: the length of a string in bytes
ByteLen(s) == IF s = <<>> THEN 0 ELSE Utf8Len(Head(s)) + ByteLen(Tail(s))

(***************************************************************************)
(* The annotation names of the dictionary (main.rs 226-249).               *)
(***************************************************************************)
MappingWord == <<"M","a","p","p","i","n","g">>
RequestMapping == <<"@","R","e","q","u","e","s","t">> \o MappingWord
DeleteMapping == <<"@","D","e","l","e","t","e">> \o MappingWord
GetMapping == <<"@","G","e","t">> \o MappingWord
HeadMapping == <<"@","H","e","a","d">> \o MappingWord
OptionsMapping == <<"@","O","p","t","i","o","n","s">> \o MappingWord
PatchMapping == <<"@","P","a","t","c","h">> \o MappingWord
PostMapping == <<"@","P","o","s","t">> \o MappingWord
PutMapping == <<"@","P","u","t">> \o MappingWord

DictionaryNames ==
    {RequestMapping, DeleteMapping, GetMapping, HeadMapping, OptionsMapping,
     PatchMapping, PostMapping, PutMapping}

\* enum HttpVerbs with as_str
HttpVerbs == {"GET", "POST", "PUT", "PATCH", "DELETE", "OPTIONS", "HEAD", "ANY"}

\* the if / else-if chain on str_buffer; "unknown" is the branch that panics
VerbOfName(buf) ==
    IF buf = RequestMapping THEN "ANY"
    ELSE IF buf = DeleteMapping THEN "DELETE"
    ELSE IF buf = GetMapping THEN "GET"
    ELSE IF buf = HeadMapping THEN "HEAD"
    ELSE IF buf = OptionsMapping THEN "OPTIONS"
    ELSE IF buf = PatchMapping THEN "PATCH"
    ELSE IF buf = PostMapping THEN "POST"
    ELSE IF buf = PutMapping THEN "PUT"
    ELSE "unknown"

(***************************************************************************)
(* The precondition of a parse (main.rs 144, 201).                         *)
(***************************************************************************)
\* endpoint_regex.is_match(line): (@)\w+(Mapping).* found anywhere in line
EndpointRegexIsMatch(l) ==
    \E i \in 1..Len(l) : \E m \in 1..Len(l) :
        /\ l[i] = "@"
        /\ i + m + Len(MappingWord) <= Len(l)
        /\ \A k \in (i + 1)..(i + m) : IsWord(l[k])
        /\ SubSeq(l, i + m + 1, i + m + Len(MappingWord)) = MappingWord

\* line.trim().starts_with('@')
TrimStartsWithAt(l) ==
    \E i \in 1..Len(l) :
        /\ l[i] = "@"
        /\ \A k \in 1..(i - 1) : IsWhitespace(l[k])

\* mutant: the test of the first non-blank character is left out
LineIsEndpoint_RegexOnly(l) == EndpointRegexIsMatch(l)

LineIsEndpoint(l) == EndpointRegexIsMatch(l) /\ TrimStartsWithAt(l)

(***************************************************************************)
(* The automaton (main.rs 203-295).  Its state is a record p with the      *)
(* fields cur_context, str_buffer, prev_c, endpoint_path, http_verb and    *)
(* panicked.                                                               *)
(***************************************************************************)
Contexts == {"AnnotationName", "AnnotationAttributes", "EndpointPath", "EOC"}

\* the values of lines 210-215
InitialParse ==
    [cur_context |-> "AnnotationName", str_buffer |-> <<>>, prev_c |-> Nul,
     endpoint_path |-> <<>>, http_verb |-> "ANY", panicked |-> FALSE]

\* line 220
IsEscape(p) == p.prev_c = "\\"

\* lines 225: the name ends at '(' or at the index that equals the byte
\* length of the line minus one (idx is the 0-based enumerate() index)
EndOfName(cur_c, idx, byte_len) == cur_c = "(" \/ idx = byte_len - 1

\* lines 223-269
StepAnnotationName(p, cur_c, idx, byte_len) ==
    IF EndOfName(cur_c, idx, byte_len)
    THEN IF VerbOfName(p.str_buffer) = "unknown"
         THEN [p EXCEPT !.panicked = TRUE]
         ELSE [p EXCEPT !.http_verb = VerbOfName(p.str_buffer),
                        !.str_buffer = <<>>,
                        !.cur_context = IF cur_c = "("
                                        THEN "AnnotationAttributes"
                                        ELSE "AnnotationName",
                        !.prev_c = cur_c]
    ELSE [p EXCEPT !.str_buffer = IF IsWhitespace(cur_c)
                                  THEN p.str_buffer
                                  ELSE Append(p.str_buffer, cur_c),
                   !.prev_c = cur_c]

\* lines 270-274
StepAnnotationAttributes(p, cur_c) ==
    [p EXCEPT !.cur_context = IF cur_c = "\"" THEN "EndpointPath"
                              ELSE "AnnotationAttributes",
              !.prev_c = cur_c]

\* mutant: a backslash that is skipped is stored as the previous character
StepEndpointPath_StoresBackslash(p, cur_c) ==
    IF cur_c = "\"" /\ p.prev_c # "\\"
    THEN [p EXCEPT !.endpoint_path = p.str_buffer,
                   !.str_buffer = <<>>,
                   !.cur_context = "EOC",
                   !.prev_c = cur_c]
    ELSE IF cur_c = "\\" /\ p.prev_c # "\\"
         THEN [p EXCEPT !.prev_c = cur_c]
         ELSE [p EXCEPT !.str_buffer = Append(p.str_buffer, cur_c),
                        !.prev_c = cur_c]

\* mutant: the path is published while it is still being accumulated
StepEndpointPath_Partial(p, cur_c) ==
    IF cur_c = "\"" /\ p.prev_c # "\\"
    THEN [p EXCEPT !.endpoint_path = p.str_buffer,
                   !.str_buffer = <<>>,
                   !.cur_context = "EOC",
                   !.prev_c = cur_c]
    ELSE IF cur_c = "\\" /\ p.prev_c # "\\"
         THEN p
         ELSE [p EXCEPT !.str_buffer = Append(p.str_buffer, cur_c),
                        !.endpoint_path = Append(p.str_buffer, cur_c),
                        !.prev_c = cur_c]

\* lines 275-290; the continue of line 286 leaves prev_c as it was
StepEndpointPath(p, cur_c) ==
    IF cur_c = "\"" /\ ~IsEscape(p)
    THEN [p EXCEPT !.endpoint_path = p.str_buffer,
                   !.str_buffer = <<>>,
                   !.cur_context = "EOC",
                   !.prev_c = cur_c]
    ELSE IF cur_c = "\\" /\ ~IsEscape(p)
         THEN p
         ELSE [p EXCEPT !.str_buffer = Append(p.str_buffer, cur_c),
                        !.prev_c = cur_c]

\* mutant: the characters after the closing quote are added to the path
StepEOC_Appends(p, cur_c) ==
    [p EXCEPT !.endpoint_path = Append(p.endpoint_path, cur_c),
              !.prev_c = cur_c]

\* mutant: a quote after the path opens another path
StepEOC_Reopens(p, cur_c) ==
    [p EXCEPT !.cur_context = IF cur_c = "\"" THEN "EndpointPath" ELSE "EOC",
              !.prev_c = cur_c]

\* line 291
StepEOC(p, cur_c) == [p EXCEPT !.prev_c = cur_c]

\* one iteration of the loop of line 217
Step(p, cur_c, idx, byte_len) ==
    CASE p.cur_context = "AnnotationName" ->
            StepAnnotationName(p, cur_c, idx, byte_len)
      [] p.cur_context = "AnnotationAttributes" ->
            StepAnnotationAttributes(p, cur_c)
      [] p.cur_context = "EndpointPath" -> StepEndpointPath(p, cur_c)
      [] p.cur_context = "EOC" -> StepEOC(p, cur_c)

RECURSIVE RunFrom(_, _, _)
\* the loop of line 217 from the character at 0-based index idx on
RunFrom(p, l, idx) ==
    IF idx >= Len(l) \/ p.panicked THEN p
    ELSE RunFrom(Step(p, l[idx + 1], idx, ByteLen(l)), l, idx + 1)

\* the whole loop over a line that passed the precondition
ParseLine(l) == RunFrom(InitialParse, l, 0)

\* the match pushed at lines 298-300
MatchOf(p) == [http_verb |-> p.http_verb, rest_path |-> p.endpoint_path]

(***************************************************************************)
(* The lines the automaton is run on.                                      *)
(***************************************************************************)
RECURSIVE SeqsUpTo(_, _)
SeqsUpTo(S, n) ==
    IF n = 0 THEN {<<>>}
    ELSE LET shorter == SeqsUpTo(S, n - 1)
         IN  shorter \cup {Append(s, c) : s \in shorter, c \in S}

\* the characters that follow a line's start: the three the automaton
\* tests for, an ordinary one and a two-byte one (blanks matter in the
\* annotation name only, and come with the starts)
TailAlphabet == {"(", "\"", "\\", "a", Eacute}

FooMapping == <<"@","F","o","o">> \o MappingWord

\* what a line starts with: dictionary names, bare, after a blank and before
\* one, an unknown mapping name, and two starts that fail one half of the
\* precondition each
LineStarts ==
    {GetMapping,
     RequestMapping,
     <<" ">> \o DeleteMapping,
     PostMapping \o <<" ">>,
     FooMapping,
     <<"@">> \o MappingWord,
     <<"a">> \o GetMapping}

\* every dictionary name: alone, before a blank, before '(' and with a path
NameLines ==
    {name \o rest :
        name \in DictionaryNames,
        rest \in {<<>>, <<" ">>, <<"(">>, <<"(","\"","/","a","\"",")">>}}

\* the lines of the specification's examples
ExampleGetUsers ==
    GetMapping \o <<"(","\"","/","u","s","e","r","s","/","{","i","d","}","\"",")">>
ExampleRequestHealth ==
    RequestMapping \o
    <<"(","v","a","l","u","e"," ","="," ","\"","/","h","e","a","l","t","h","\"",")">>
ExamplePostEscaped ==
    PostMapping \o <<"(","\"","/","a","\\","\"","b","\"",")">>
ExampleDelete == DeleteMapping
ExampleFoo == FooMapping \o <<"(","\"","/","x","\"",")">>

ExampleTwoBackslashes ==
    GetMapping \o <<"(","\"","/","a","\\","\\","\"","b","\"",")">>

ExampleLines ==
    {ExampleGetUsers, ExampleRequestHealth, ExamplePostEscaped, ExampleDelete,
     ExampleFoo, ExampleTwoBackslashes}

Lines ==
    ExampleLines \cup NameLines \cup
    {start \o tail :
        start \in LineStarts, tail \in SeqsUpTo(TailAlphabet, MaxTail)}

(***************************************************************************)
(* Spec: the automaton on one line, one character per step.                *)
(***************************************************************************)
CurrentParse ==
    [cur_context |-> cur_context, str_buffer |-> str_buffer,
     prev_c |-> prev_c, endpoint_path |-> endpoint_path,
     http_verb |-> http_verb, panicked |-> FALSE]

SetParse(p) ==
    /\ cur_context' = p.cur_context
    /\ str_buffer' = p.str_buffer
    /\ prev_c' = p.prev_c
    /\ endpoint_path' = p.endpoint_path
    /\ http_verb' = p.http_verb

\* the values of the variables a specification does not use
NoLine ==
    /\ line = <<>>
    /\ index = 0
    /\ cur_context = InitialParse.cur_context
    /\ str_buffer = InitialParse.str_buffer
    /\ prev_c = InitialParse.prev_c
    /\ endpoint_path = InitialParse.endpoint_path
    /\ http_verb = InitialParse.http_verb

NoFile == file_lines = <<>> /\ line_no = 0 /\ match_lines = <<>>

NoWalk ==
    /\ root = <<>>
    /\ cwd = <<>>
    /\ stack = <<>>
    /\ results = <<>>
    /\ stdout = <<>>
    /\ opened = <<>>

Init ==
    /\ line \in Lines
    /\ index = 0
    /\ cur_context = InitialParse.cur_context
    /\ str_buffer = InitialParse.str_buffer
    /\ prev_c = InitialParse.prev_c
    /\ endpoint_path = InitialParse.endpoint_path
    /\ http_verb = InitialParse.http_verb
    /\ pc = "line"
    /\ panic_msg = <<>>
    /\ request_search_results = <<>>
    /\ NoFile
    /\ NoWalk

\* line 201: the precondition; lines 210-215 when it holds
TestLine ==
    /\ pc = "line"
    /\ pc' = IF LineIsEndpoint(line) THEN "chars" ELSE "next"
    /\ SetParse(InitialParse)
    /\ index' = 0
    /\ UNCHANGED <<line, panic_msg, request_search_results, fileVars, walkVars>>

\* lines 217-295: one character
ParseChar ==
    /\ pc = "chars"
    /\ index < Len(line)
    /\ LET p == Step(CurrentParse, line[index + 1], index, ByteLen(line))
       IN  IF p.panicked
           THEN /\ pc' = "panic"
                /\ panic_msg' = str_buffer
                /\ UNCHANGED <<parserVars, request_search_results>>
           ELSE /\ SetParse(p)
                /\ index' = index + 1
                /\ UNCHANGED <<line, pc, panic_msg, request_search_results>>
    /\ UNCHANGED <<fileVars, walkVars>>

\* lines 297-300: the line is over, its match is pushed
PushMatch ==
    /\ pc = "chars"
    /\ index = Len(line)
    /\ request_search_results' =
           Append(request_search_results, MatchOf(CurrentParse))
    /\ pc' = "next"
    /\ UNCHANGED <<parserVars, panic_msg, fileVars, walkVars>>

Next == TestLine \/ ParseChar \/ PushMatch

Spec == Init /\ [][Next]_vars

(***************************************************************************)
(* FileSpec: the line loop of one file (main.rs 194-305), one line per     *)
(* step.                                                                   *)
(***************************************************************************)
\* mutant: the automaton starts a line in the state the line before left
LineLocals_Kept(before) == before

\* lines 210-215: the locals of the automaton are declared in the body of the
\* loop, each line starts with new ones
LineLocals(before) == InitialParse

\* what the body of the loop of line 197 does with one line; before is what
\* the automaton held when the line before was over, locals what it holds
\* when this one is
LineResult(before, l) ==
    IF LineIsEndpoint(l)
    THEN LET p == RunFrom(LineLocals(before), l, 0)
         IN  IF p.panicked
             THEN [kind |-> "panic", msg |-> p.str_buffer, locals |-> p]
             ELSE [kind |-> "match", found |-> MatchOf(p), locals |-> p]
    ELSE [kind |-> "none", locals |-> before]

LineGetA == GetMapping \o <<"(","\"","/","a","\"",")">>
LinePostB == PostMapping \o <<"(","\"","/","b","\"",")">>
LinePlain == <<"i","n","t"," ","x",";">>
LineEmpty == <<>>
LineGetOpen == GetMapping \o <<"(","a">>

\* the lines of the files scanned: two annotations with different matches,
\* two lines that are no annotation, an annotation with no quoted path, and
\* a name outside the dictionary
SampleLines ==
    {LineGetA, LinePostB, LinePlain, LineEmpty, LineGetOpen, ExampleFoo}

\* str::split yields one line at least, also for an empty file
FileContents == SeqsUpTo(SampleLines, MaxLines) \ {<<>>}

FileInit ==
    /\ file_lines \in FileContents
    /\ line_no = 0
    /\ match_lines = <<>>
    /\ request_search_results = <<>>
    /\ pc = "file"
    /\ panic_msg = <<>>
    /\ NoLine
    /\ NoWalk

\* mutant: the match of a line is put before the matches found so far
PushFound_Front(found_so_far, found) == <<found>> \o found_so_far

\* lines 298-300: request_search_results.push
PushFound(found_so_far, found) == Append(found_so_far, found)

\* lines 197-301: one line of the file
ScanLine ==
    /\ pc = "file"
    /\ line_no < Len(file_lines)
    /\ LET r == LineResult(CurrentParse, file_lines[line_no + 1])
       IN  CASE r.kind = "none" ->
                 /\ line_no' = line_no + 1
                 /\ UNCHANGED <<pc, panic_msg, request_search_results,
                                match_lines, parserVars>>
             [] r.kind = "match" ->
                 /\ line_no' = line_no + 1
                 /\ SetParse(r.locals)
                 /\ request_search_results' =
                        PushFound(request_search_results, r.found)
                 /\ match_lines' = Append(match_lines, line_no + 1)
                 /\ UNCHANGED <<pc, panic_msg>>
             [] r.kind = "panic" ->
                 /\ pc' = "panic"
                 /\ panic_msg' = r.msg
                 /\ UNCHANGED <<line_no, request_search_results, match_lines,
                                parserVars>>
    /\ UNCHANGED <<file_lines, line, index, walkVars>>

\* line 305: the lines are over, the file's result is pushed
PushFileResult ==
    /\ pc = "file"
    /\ line_no = Len(file_lines)
    /\ pc' = "pushed"
    /\ UNCHANGED <<panic_msg, request_search_results, fileVars, parserVars,
                   walkVars>>

FileNext == ScanLine \/ PushFileResult

FileSpec == FileInit /\ [][FileNext]_vars

(***************************************************************************)
(* The directory tree the walker is run on.  A node of the tree is a       *)
(* record [id, entries]: id names one of the entries of FileSystem, which  *)
(* gives what the file system answers about it, and entries are the nodes  *)
(* below it.  About an entry: kind is "dir", "file", "other" (neither      *)
(* is_dir nor is_file) or "error" (the read_dir iterator yields Err);      *)
(* readable tells whether fs::read_dir succeeds on a directory; len is     *)
(* what metadata() reports; io is the first file operation that fails,     *)
(* "ok" when none does; lines is what the content read splits into.        *)
(***************************************************************************)
\* line 142
BUFFER_SIZE == 1024 * 1024 * 8

ControllerSuffix ==
    <<"C","o","n","t","r","o","l","l","e","r",".","j","a","v","a">>

\* file_name_regex.is_match: ^.?*(Controller\.java)$, where . is any
\* character but the line feed
FileNameIsMatch(name) ==
    /\ Len(name) >= Len(ControllerSuffix)
    /\ SubSeq(name, Len(name) - Len(ControllerSuffix) + 1, Len(name))
           = ControllerSuffix
    /\ \A k \in 1..(Len(name) - Len(ControllerSuffix)) : name[k] # "\n"

\* mutant: no directory is taken as hidden
IsHiddenName_Never(name) == FALSE

\* line 157: starts_with('.')
IsHiddenName(name) == name # <<>> /\ name[1] = "."

File(name, len, io, lines) ==
    [kind |-> "file", name |-> name, readable |-> TRUE, len |-> len,
     io |-> io, lines |-> lines]

Dir(name, readable) ==
    [kind |-> "dir", name |-> name, readable |-> readable, len |-> 0,
     io |-> "ok", lines |-> <<>>]

Special(kind) ==
    [kind |-> kind, name |-> <<"x">>, readable |-> TRUE, len |-> 0,
     io |-> "ok", lines |-> <<>>]

OrderControllerName == <<"O","r","d","e","r">> \o ControllerSuffix
UserControllerName == <<"U","s","e","r">> \o ControllerSuffix
MainName == <<"M","a","i","n",".","j","a","v","a">>
SrcName == <<"s","r","c">>
GitName == <<".","g","i","t">>
DotName == <<".">>

\* the entries of the trees: controller files that are scanned (one of the
\* size of the cap exactly, one with no line but an empty one, one with an
\* unknown annotation), files over the cap, a file with another name, files
\* on which metadata, open or read fails, entries that are no file and no
\* directory, and directories: plain, hidden, unreadable, hidden and
\* unreadable; the root is named "." as in -mapdir .
FileSystem ==
    [order_at_cap |-> File(OrderControllerName, BUFFER_SIZE, "ok",
                           <<LineGetA, LinePlain, LinePostB>>),
     empty_ctrl   |-> File(ControllerSuffix, 0, "ok", <<LineEmpty>>),
     foo_ctrl     |-> File(UserControllerName, 64, "ok",
                           <<LinePlain, ExampleFoo>>),
     big_ctrl     |-> File(OrderControllerName, BUFFER_SIZE + 1, "ok",
                           <<LineGetA>>),
     big_main     |-> File(MainName, BUFFER_SIZE + 1, "ok", <<LineGetA>>),
     main         |-> File(MainName, 64, "ok", <<LineGetA>>),
     nometa       |-> File(MainName, 64, "metadata_err", <<>>),
     noopen       |-> File(UserControllerName, 64, "open_err", <<>>),
     noread       |-> File(UserControllerName, 64, "read_err", <<>>),
     other        |-> Special("other"),
     error        |-> Special("error"),
     locked       |-> Dir(SrcName, FALSE),
     nogit        |-> Dir(GitName, FALSE),
     src          |-> Dir(SrcName, TRUE),
     git          |-> Dir(GitName, TRUE),
     root         |-> Dir(DotName, TRUE),
     noroot       |-> Dir(DotName, FALSE)]

\* what the file system answers about a node
Info(node) == FileSystem[node.id]

Node(id, entries) == [id |-> id, entries |-> entries]

\* the entries that have no entries below them, and the directories that do
LeafIds ==
    {"order_at_cap", "empty_ctrl", "foo_ctrl", "big_ctrl", "big_main", "main",
     "nometa", "noopen", "noread", "other", "error", "locked", "nogit"}
DirIds == {"src", "git"}

RECURSIVE NodeAt(_, _)
\* the node at a path, a sequence of positions, below a node
NodeAt(node, path) ==
    IF path = <<>> THEN node
    ELSE NodeAt(node.entries[Head(path)], Tail(path))

(***************************************************************************)
(* WalkSpec: main and search_in_dir (main.rs 117-311), one directory entry *)
(* per step.  A frame of the stack is one active call of search_in_dir.    *)
(***************************************************************************)
RECURSIVE ScanLinesFrom(_, _, _, _)
\* the loop of line 197 from line k on; acc holds the matches pushed so far,
\* before what the automaton held when line k - 1 was over
ScanLinesFrom(lines, k, acc, before) ==
    IF k > Len(lines) THEN [panicked |-> FALSE, msg |-> <<>>, matches |-> acc]
    ELSE LET r == LineResult(before, lines[k])
         IN  CASE r.kind = "none" ->
                      ScanLinesFrom(lines, k + 1, acc, r.locals)
               [] r.kind = "match" ->
                      ScanLinesFrom(lines, k + 1, PushFound(acc, r.found),
                                    r.locals)
               [] r.kind = "panic" ->
                      [panicked |-> TRUE, msg |-> r.msg, matches |-> acc]

\* lines 194-302 on the lines of one file
ScanLines(lines) == ScanLinesFrom(lines, 1, <<>>, InitialParse)

\* lines 194-302 on the content of each entry of FileSystem
ScanOf == [id \in LeafIds |-> ScanLines(FileSystem[id].lines)]

\* lines 136-147: the locals of a call that has read its directory
Frame(entries, path) ==
    [entries |-> entries, i |-> 1, file_search_results |-> <<>>,
     path |-> path]

Top == stack[Len(stack)]
CurNode == Top.entries[Top.i]
CurEntry == Info(CurNode)
CurPath == Append(Top.path, Top.i)

\* the loop of line 149 is at an entry
AtEntry == pc = "walk" /\ stack # <<>> /\ Top.i <= Len(Top.entries)

\* mutant: the results of the innermost call are lost on the way
Continue_LosesResults ==
    [stack EXCEPT ![Len(stack)].i = @ + 1,
                  ![Len(stack)].file_search_results = <<>>]

\* the stack with the loop of the innermost call moved to its next entry
Continue == [stack EXCEPT ![Len(stack)].i = @ + 1]

\* mutant: the failure is noted and main goes on to print
Panic_Renders(msg) == pc' = "render" /\ panic_msg' = msg

\* expect and panic!: the process ends with a message
Panic(msg) == pc' = "panic" /\ panic_msg' = msg

RECURSIVE AppendAt(_, _, _)
\* node with one more entry in the directory at path below it
AppendAt(node, path, new) ==
    IF path = <<>> THEN [node EXCEPT !.entries = Append(@, new)]
    ELSE [node EXCEPT !.entries[Head(path)] = AppendAt(@, Tail(path), new)]

RECURSIVE NodesIn(_)
\* the number of files and directories in a sequence of nodes
NodesIn(entries) ==
    IF entries = <<>> THEN 0
    ELSE 1 + NodesIn(Head(entries).entries) + NodesIn(Tail(entries))

\* the walker starts on a root that cannot be read, or on one that is
\* populated first
WalkInit ==
    /\ root \in {Node("root", <<>>), Node("noroot", <<>>)}
    /\ cwd = <<>>
    /\ stack = <<>>
    /\ results = <<>>
    /\ stdout = <<>>
    /\ opened = <<>>
    /\ pc = "setup"
    /\ panic_msg = <<>>
    /\ request_search_results = <<>>
    /\ NoLine
    /\ NoFile

CanCreate ==
    pc = "setup" /\ Info(root).readable /\ NodesIn(root.entries) < MaxNodes

\* before the run: an entry with nothing below it is added to the tree
CreateEntry ==
    /\ CanCreate
    /\ \E id \in LeafIds : root' = AppendAt(root, cwd, Node(id, <<>>))
    /\ UNCHANGED <<cwd, stack, results, stdout, opened, pc, panic_msg,
                   request_search_results, parserVars, fileVars>>

\* before the run: a directory is added to the tree, to be populated next
CreateDir ==
    /\ CanCreate
    /\ \E id \in DirIds : root' = AppendAt(root, cwd, Node(id, <<>>))
    /\ cwd' = Append(cwd, Len(NodeAt(root, cwd).entries) + 1)
    /\ UNCHANGED <<stack, results, stdout, opened, pc, panic_msg,
                   request_search_results, parserVars, fileVars>>

\* before the run: the directory being populated is complete
LeaveDir ==
    /\ pc = "setup"
    /\ cwd # <<>>
    /\ cwd' = SubSeq(cwd, 1, Len(cwd) - 1)
    /\ UNCHANGED <<root, stack, results, stdout, opened, pc, panic_msg,
                   request_search_results, parserVars, fileVars>>

\* lines 122, 136-147: main calls search_in_dir on the root
MainCall ==
    /\ pc = "setup"
    /\ cwd' = <<>>
    /\ IF Info(root).readable
       THEN /\ stack' = <<Frame(root.entries, <<>>)>>
            /\ pc' = "walk"
            /\ UNCHANGED panic_msg
       ELSE /\ Panic(<<"Could not map 'mapdir' directory">>)
            /\ UNCHANGED stack
    /\ UNCHANGED <<root, results, stdout, opened, request_search_results,
                   parserVars, fileVars>>

\* line 150 with an Err item; lines 156-163 with an entry that is no file
\* and no directory to recurse into
SkipEntry ==
    /\ AtEntry
    /\ \/ CurEntry.kind \in {"error", "other"}
       \/ CurEntry.kind = "dir" /\ IsHiddenName(CurEntry.name)
    /\ stack' = Continue
    /\ UNCHANGED <<root, cwd, results, stdout, opened, pc, panic_msg,
                   request_search_results, parserVars, fileVars>>

\* lines 156-158, 136-147: the recursive call on a directory
EnterDir ==
    /\ AtEntry
    /\ CurEntry.kind = "dir" /\ ~IsHiddenName(CurEntry.name)
    /\ IF CurEntry.readable
       THEN /\ stack' = Append(stack, Frame(CurNode.entries, CurPath))
            /\ UNCHANGED <<pc, panic_msg>>
       ELSE /\ Panic(<<"Could not map 'mapdir' directory">>)
            /\ UNCHANGED stack
    /\ UNCHANGED <<root, cwd, results, stdout, opened, request_search_results,
                   parserVars, fileVars>>

\* mutant: what the call made returns is put before the results of the caller
AppendResults_Front(file_search_results, returned) ==
    returned \o file_search_results

\* line 158: file_search_results.append
AppendResults(file_search_results, returned) ==
    file_search_results \o returned

\* mutant: the caller stays at the subdirectory it has just walked
Resume_SameEntry(caller, returned) ==
    [caller EXCEPT
       !.file_search_results = AppendResults(@, returned)]

\* lines 158-159: the caller appends what the call returned and continues
\* with its next entry
Resume(caller, returned) ==
    [caller EXCEPT
       !.file_search_results = AppendResults(@, returned),
       !.i = @ + 1]

\* lines 310, 158-159: a call returns to the call that made it, or to main
Return ==
    /\ pc = "walk" /\ stack # <<>>
    /\ Top.i > Len(Top.entries)
    /\ IF Len(stack) = 1
       THEN /\ results' = Top.file_search_results
            /\ stack' = <<>>
            /\ pc' = "render"
       ELSE LET caller == stack[Len(stack) - 1]
            IN  /\ stack' =
                       Append(SubSeq(stack, 1, Len(stack) - 2),
                              Resume(caller, Top.file_search_results))
                /\ UNCHANGED <<results, pc>>
    /\ UNCHANGED <<root, cwd, stdout, opened, panic_msg, request_search_results,
                   parserVars, fileVars>>

\* lines 166-169: the metadata of a file cannot be read
MetadataPanic ==
    /\ AtEntry
    /\ CurEntry.kind = "file" /\ CurEntry.io = "metadata_err"
    /\ Panic(<<"Could not read metadata from file">>)
    /\ UNCHANGED <<root, cwd, stack, results, stdout, opened,
                   request_search_results, parserVars, fileVars>>

\* mutant: a file of the size of the buffer is refused too
ExceedsBuffer_Inclusive(len) == len >= BUFFER_SIZE

\* line 172
ExceedsBuffer(len) == len > BUFFER_SIZE

\* the file passed lines 166-169
HasMetadata == AtEntry /\ CurEntry.kind = "file" /\ CurEntry.io # "metadata_err"

\* lines 172-175: the file is longer than the buffer
IgnoreLargeFile ==
    /\ HasMetadata
    /\ ExceedsBuffer(CurEntry.len)
    /\ stdout' = Append(stdout, [msg |-> "Ignoring file", file |-> CurPath])
    /\ stack' = Continue
    /\ UNCHANGED <<root, cwd, results, opened, pc, panic_msg,
                   request_search_results, parserVars, fileVars>>

\* lines 178-180: the name does not end with Controller.java
SkipOtherName ==
    /\ HasMetadata
    /\ ~ExceedsBuffer(CurEntry.len)
    /\ ~FileNameIsMatch(CurEntry.name)
    /\ stack' = Continue
    /\ UNCHANGED <<root, cwd, results, stdout, opened, pc, panic_msg,
                   request_search_results, parserVars, fileVars>>

\* the file passed lines 166-180 and is given to File::open
IsOpened ==
    /\ HasMetadata
    /\ ~ExceedsBuffer(CurEntry.len)
    /\ FileNameIsMatch(CurEntry.name)

\* line 183: the file cannot be opened
OpenPanic ==
    /\ IsOpened
    /\ CurEntry.io = "open_err"
    /\ opened' = Append(opened, CurPath)
    /\ Panic(<<"Could not open file">>)
    /\ UNCHANGED <<root, cwd, stack, results, stdout, request_search_results,
                   parserVars, fileVars>>

\* lines 185-191: the file cannot be read
ReadFailure ==
    /\ IsOpened
    /\ CurEntry.io = "read_err"
    /\ opened' = Append(opened, CurPath)
    /\ stdout' = Append(stdout, [msg |-> "Could not read file",
                                 file |-> CurPath])
    /\ stack' = Continue
    /\ UNCHANGED <<root, cwd, results, pc, panic_msg, request_search_results,
                   parserVars, fileVars>>

\* mutant: a result with no match is not pushed
PushResult_NonEmpty(file_search_results, result) ==
    IF result.request_search_results = <<>> THEN file_search_results
    ELSE Append(file_search_results, result)

\* line 305: file_search_results.push
PushResult(file_search_results, result) == Append(file_search_results, result)

\* lines 192-305: the file is read and scanned, its result is pushed
ScanFile ==
    /\ IsOpened
    /\ CurEntry.io = "ok"
    /\ opened' = Append(opened, CurPath)
    /\ LET r == ScanOf[CurNode.id]
       IN  IF r.panicked
           THEN /\ Panic(r.msg)
                /\ UNCHANGED stack
           ELSE /\ stack' =
                       [stack EXCEPT
                          ![Len(stack)].file_search_results =
                              PushResult(@,
                                  [file_name |-> CurEntry.name,
                                   request_search_results |-> r.matches]),
                          ![Len(stack)].i = @ + 1]
                /\ UNCHANGED <<pc, panic_msg>>
    /\ UNCHANGED <<root, cwd, results, stdout, request_search_results,
                   parserVars, fileVars>>

\* lines 124-130: main prints the results
Render ==
    /\ pc = "render"
    /\ stdout' = stdout \o [k \in 1..Len(results) |->
                               [msg |-> "result", file |-> results[k]]]
    /\ pc' = "done"
    /\ UNCHANGED <<root, cwd, stack, results, opened, panic_msg,
                   request_search_results, parserVars, fileVars>>

WalkNext ==
    \/ CreateEntry
    \/ CreateDir
    \/ LeaveDir
    \/ MainCall
    \/ SkipEntry
    \/ EnterDir
    \/ Return
    \/ MetadataPanic
    \/ IgnoreLargeFile
    \/ SkipOtherName
    \/ OpenPanic
    \/ ReadFailure
    \/ ScanFile
    \/ Render

WalkSpec == WalkInit /\ [][WalkNext]_vars

\* the steps of the program: main, search_in_dir and the printing
WalkRun ==
    \/ MainCall
    \/ SkipEntry
    \/ EnterDir
    \/ Return
    \/ MetadataPanic
    \/ IgnoreLargeFile
    \/ SkipOtherName
    \/ OpenPanic
    \/ ReadFailure
    \/ ScanFile
    \/ Render

\* WalkSpec for a program that is not stopped from outside: main and
\* search_in_dir are sequential code, the step that is enabled is taken
WalkLiveSpec == WalkSpec /\ WF_vars(WalkRun)

(***************************************************************************)
(* What the specification says of a line, stated on the text of the line.  *)
(***************************************************************************)
\* the smallest position >= from of l that holds c; Len(l) + 1 when none does
FirstIndexOf(l, c, from) ==
    IF \E i \in from..Len(l) : l[i] = c
    THEN CHOOSE i \in from..Len(l) :
            l[i] = c /\ \A j \in from..(i - 1) : l[j] # c
    ELSE Len(l) + 1

NonBlanks(l) == SelectSeq(l, LAMBDA c : ~IsWhitespace(c))

RECURSIVE TrimStart(_)
TrimStart(l) ==
    IF l # <<>> /\ IsWhitespace(Head(l)) THEN TrimStart(Tail(l)) ELSE l

\* '@', one word character or more, then the word Mapping, somewhere in l
HasMarkerWordMapping(l) ==
    \E i \in 1..Len(l) : \E j \in (i + 2)..Len(l) :
        /\ l[i] = "@"
        /\ \A k \in (i + 1)..(j - 1) : IsWord(l[k])
        /\ j + Len(MappingWord) - 1 <= Len(l)
        /\ \A k \in 1..Len(MappingWord) : l[j + k - 1] = MappingWord[k]

\* the parse precondition of section 4.1
PassesPrecondition(l) ==
    /\ HasMarkerWordMapping(l)
    /\ TrimStart(l) # <<>>
    /\ Head(TrimStart(l)) = "@"

HasParen(l) == FirstIndexOf(l, "(", 1) <= Len(l)

\* the non-whitespace characters before the first '(' or the end of the line
NameToken(l) == NonBlanks(SubSeq(l, 1, FirstIndexOf(l, "(", 1) - 1))

\* the dictionary of section 6
SpecVerb(name) ==
    CASE name = GetMapping -> "GET"
      [] name = PostMapping -> "POST"
      [] name = PutMapping -> "PUT"
      [] name = PatchMapping -> "PATCH"
      [] name = DeleteMapping -> "DELETE"
      [] name = OptionsMapping -> "OPTIONS"
      [] name = HeadMapping -> "HEAD"
      [] name = RequestMapping -> "ANY"
      [] OTHER -> "none"

\* a recognized annotation name followed by '('
RecognizedWithParen(l) ==
    PassesPrecondition(l) /\ HasParen(l) /\ NameToken(l) \in DictionaryNames

\* the first double-quote after the '(' and the next double-quote after it
OpenQuote(l) == FirstIndexOf(l, "\"", FirstIndexOf(l, "(", 1) + 1)
NextQuote(l) == FirstIndexOf(l, "\"", OpenQuote(l) + 1)

\* the first double-quote after the opening one that no backslash precedes
UnescapedQuote(l) ==
    IF \E r \in (OpenQuote(l) + 1)..Len(l) : l[r] = "\"" /\ l[r - 1] # "\\"
    THEN CHOOSE r \in (OpenQuote(l) + 1)..Len(l) :
            /\ l[r] = "\"" /\ l[r - 1] # "\\"
            /\ \A j \in (OpenQuote(l) + 1)..(r - 1) :
                   ~(l[j] = "\"" /\ l[j - 1] # "\\")
    ELSE Len(l) + 1

OneMatch(verb, path) == <<[http_verb |-> verb, rest_path |-> path]>>

(***************************************************************************)
(* The claims about the line automaton, checked under Spec.                *)
(***************************************************************************)

\* C1: in EndpointPath a double-quote that follows an unescaped backslash
\* does not end the path: the automaton stays in EndpointPath with the quote
\* copied; and the line @PostMapping("/a\"b") yields the one match
\* (POST, /a"b).
C1_EscapedQuoteIsCopied ==
    /\ (pc = "next" /\ line = ExamplePostEscaped)
           => request_search_results =
                  OneMatch("POST", <<"/", "a", "\"", "b">>)
    /\ (/\ pc = "chars"
        /\ RecognizedWithParen(line)
        /\ index >= 3
        /\ line[index] = "\"" /\ line[index - 1] = "\\"
        /\ line[index - 2] # "\\"
        /\ OpenQuote(line) < index - 1
        /\ \A k \in (OpenQuote(line) + 1)..(index - 2) : line[k] # "\"")
           => /\ cur_context = "EndpointPath"
              /\ str_buffer # <<>>
              /\ str_buffer[Len(str_buffer)] = "\""

\* a line that is a dictionary name and nothing else but blanks
NameOnlyLine(l) ==
    PassesPrecondition(l) /\ ~HasParen(l) /\ NonBlanks(l) \in DictionaryNames

\* C2: a line that passes the precondition and consists of a recognized name
\* with no '(' after it yields exactly one match (verb of the name, empty
\* path) and raises no error.
C2_NameOnlyLineYieldsEmptyPath ==
    NameOnlyLine(line) =>
        /\ pc # "panic"
        /\ pc = "next" =>
               request_search_results = OneMatch(SpecVerb(NonBlanks(line)), <<>>)

\* C3: a line that passes the precondition and whose name token is not in
\* the dictionary aborts the scan with an error that names the token, and no
\* match is emitted for it.
C3_UnknownNameIsFatal ==
    (PassesPrecondition(line) /\ NameToken(line) \notin DictionaryNames) =>
        /\ request_search_results = <<>>
        /\ pc # "next"
        /\ pc = "panic" => panic_msg = NameToken(line)

\* a recognized name followed by '(' with no double-quote after it, or with
\* an opening double-quote and no double-quote after that one
AttributeUnparsable(l) == RecognizedWithParen(l) /\ NextQuote(l) > Len(l)

\* C4 as stated: no match is emitted for a line whose attribute section has
\* no complete quoted string.
C4_NoMatchForUnparsableAttribute ==
    AttributeUnparsable(line) => request_search_results = <<>>

\* C4 as amended: such a line still yields exactly one match, the verb of
\* its name with the empty path; no part of an unclosed string is emitted.
C4_EmptyPathForUnparsableAttribute ==
    AttributeUnparsable(line) =>
        /\ pc # "panic"
        /\ endpoint_path = <<>>
        /\ pc = "next" =>
               request_search_results = OneMatch(SpecVerb(NameToken(line)), <<>>)

C4_Witness ==
    /\ pc = "next"
    /\ AttributeUnparsable(line)
    /\ OpenQuote(line) < Len(line)
    /\ Len(request_search_results) = 1

C6_NoParseWithoutPrecondition ==
    ~PassesPrecondition(line) =>
        /\ pc \in {"line", "next"}
        /\ index = 0
        /\ request_search_results = <<>>
        /\ panic_msg = <<>>

C6_Witness ==
    /\ pc = "next"
    /\ ~PassesPrecondition(line)
    /\ HasMarkerWordMapping(line)
    /\ HasParen(line)

(***************************************************************************)
(* What the specification says of a file and of a tree, stated on the      *)
(* lines of the file and on the paths of the tree.                         *)
(***************************************************************************)
\* the lines that pass the parse precondition
RecognizedIn(lines) ==
    {k \in 1..Len(lines) : PassesPrecondition(lines[k])}

\* the lines of the file scanned so far that pass the parse precondition
RecognizedLines(n) == RecognizedIn(SubSeq(file_lines, 1, n))

\* C8: within the result of a file the matches are in the order of their
\* lines, a line gives one match at most, each match is the one its line
\* parses to, and when the file is over there are as many matches as lines
\* recognized as endpoint annotations
C8_MatchesFollowLineOrder ==
    pc \in {"file", "pushed"} =>
      /\ Len(request_search_results) = Len(match_lines)
      /\ \A k \in 1..(Len(match_lines) - 1) : match_lines[k] < match_lines[k + 1]
      /\ \A k \in 1..Len(match_lines) :
            /\ match_lines[k] \in RecognizedLines(line_no)
            /\ request_search_results[k] =
                   MatchOf(ParseLine(file_lines[match_lines[k]]))
      /\ Len(request_search_results) = Cardinality(RecognizedLines(line_no))
      /\ pc = "pushed" => line_no = Len(file_lines)

\* two @GetMapping lines around a line that is no annotation: two matches
C8_Witness ==
    /\ pc = "pushed"
    /\ file_lines = <<LineGetA, LinePlain, LineGetA>>
    /\ request_search_results =
           OneMatch("GET", <<"/","a">>) \o OneMatch("GET", <<"/","a">>)

RECURSIVE PathsIn(_)
\* the paths of the nodes of a tree, the path of its root included
PathsIn(node) ==
    {<<>>} \cup
    UNION {{<<k>> \o p : p \in PathsIn(node.entries[k])} :
             k \in 1..Len(node.entries)}

EntryAt(path) == Info(NodeAt(root, path))

StartsWithDot(name) == Len(name) >= 1 /\ Head(name) = "."

EndsWithControllerJava(name) ==
    \E k \in 0..Len(name) : SubSeq(name, k + 1, Len(name)) = ControllerSuffix

\* one of the first n directories on the path, from below the root on, is
\* hidden
HiddenAmong(path, n) ==
    \E j \in 1..n :
        /\ EntryAt(SubSeq(path, 1, j)).kind = "dir"
        /\ StartsWithDot(EntryAt(SubSeq(path, 1, j)).name)

\* the entry at path lies below a hidden directory
UnderHidden(path) == HiddenAmong(path, Len(path) - 1)

IsControllerFile(path) ==
    /\ path # <<>>
    /\ EntryAt(path).kind = "file"
    /\ EndsWithControllerJava(EntryAt(path).name)

\* a controller-named file the walker comes to, within the cap, that can be
\* opened and read
Scannable(path) ==
    /\ IsControllerFile(path)
    /\ ~UnderHidden(path)
    /\ EntryAt(path).len <= 8 * 1024 * 1024
    /\ EntryAt(path).io = "ok"

ScannableNamed(name) ==
    {p \in PathsIn(root) : Scannable(p) /\ EntryAt(p).name = name}

ReportsNamed(name) ==
    {k \in 1..Len(results) : results[k].file_name = name}

OpenedPaths == {opened[k] : k \in 1..Len(opened)}

\* search_in_dir has returned to main
Returned == pc \in {"render", "done"}

\* C7: when the walk returns, every controller-named file within the cap
\* that was opened and read has exactly one result in the list returned,
\* also when none of its lines is an annotation: its result is then one
\* with no match
C7_OneReportPerScannedFile ==
    Returned =>
      /\ Len(results) = Cardinality({p \in PathsIn(root) : Scannable(p)})
      /\ \A p \in PathsIn(root) :
            Scannable(p) =>
              /\ p \in OpenedPaths
              /\ Cardinality(ReportsNamed(EntryAt(p).name))
                     = Cardinality(ScannableNamed(EntryAt(p).name))
              /\ RecognizedIn(EntryAt(p).lines) = {} =>
                    \E k \in 1..Len(results) :
                        results[k] =
                            [file_name |-> EntryAt(p).name,
                             request_search_results |-> <<>>]

\* a walk that is over, on a tree with a controller file of one empty line
\* and another file scanned
C7_Witness ==
    /\ pc = "done"
    /\ Len(results) >= 2
    /\ \E p \in PathsIn(root) :
          /\ Scannable(p)
          /\ EntryAt(p).lines = <<LineEmpty>>
          /\ \E k \in 1..Len(results) :
                /\ results[k].file_name = EntryAt(p).name
                /\ results[k].request_search_results = <<>>

\* C9: no call of search_in_dir is made on a directory that is hidden or
\* lies below a hidden one, no file below a hidden directory is opened,
\* warned about or counted in the results returned, and no panic comes from
\* a hidden directory
C9_HiddenDirectoriesAreSkipped ==
    /\ \A k \in 1..Len(stack) :
          ~HiddenAmong(stack[k].path, Len(stack[k].path))
    /\ \A k \in 1..Len(opened) : ~UnderHidden(opened[k])
    /\ \A k \in 1..Len(stdout) :
          stdout[k].msg # "result" => ~UnderHidden(stdout[k].file)
    /\ Returned =>
          \A k \in 1..Len(results) :
              Cardinality(ReportsNamed(results[k].file_name))
                  <= Cardinality(ScannableNamed(results[k].file_name))
    /\ (pc = "panic" /\ stack # <<>>) =>
          ~(EntryAt(CurPath).kind = "dir"
              /\ StartsWithDot(EntryAt(CurPath).name))

\* a walk that is over with no result, on a tree with a controller file that
\* could be scanned in a hidden directory, and a hidden directory that cannot
\* be read
C9_Witness ==
    /\ pc = "done"
    /\ results = <<>>
    /\ stdout = <<>>
    /\ \E p \in PathsIn(root) :
          /\ UnderHidden(p)
          /\ IsControllerFile(p)
          /\ EntryAt(p).io = "ok"
          /\ EntryAt(p).len <= 8 * 1024 * 1024
    /\ \E p \in PathsIn(root) :
          /\ p # <<>>
          /\ EntryAt(p).kind = "dir"
          /\ StartsWithDot(EntryAt(p).name)
          /\ ~EntryAt(p).readable

\* the controller-named files of more than 8*1024*1024 bytes
Oversize ==
    {p \in PathsIn(root) :
        IsControllerFile(p) /\ EntryAt(p).len > 8 * 1024 * 1024}

\* the controller-named files of 8*1024*1024 bytes the walker comes to, that
\* can be opened and read
AtTheCap ==
    {p \in PathsIn(root) :
        Scannable(p) /\ EntryAt(p).len = 8 * 1024 * 1024}

IgnoredLines(path) ==
    {k \in 1..Len(stdout) :
        stdout[k].msg = "Ignoring file" /\ stdout[k].file = path}

\* C10: a controller-named file of more than 8*1024*1024 bytes is never
\* opened, and when the walk returns it has one warning and no result; a
\* file of 8*1024*1024 bytes has been opened and has the result of its lines
C10_OversizeFileIsSkipped ==
    /\ \A k \in 1..Len(opened) :
          ~(IsControllerFile(opened[k])
              /\ EntryAt(opened[k]).len > 8 * 1024 * 1024)
    /\ Returned =>
          /\ \A p \in Oversize :
                /\ ~UnderHidden(p) => Cardinality(IgnoredLines(p)) = 1
                /\ Cardinality(ReportsNamed(EntryAt(p).name))
                       = Cardinality(ScannableNamed(EntryAt(p).name))
          /\ \A p \in AtTheCap :
                /\ p \in OpenedPaths
                /\ IgnoredLines(p) = {}
                /\ \E k \in 1..Len(results) :
                      results[k] =
                          [file_name |-> EntryAt(p).name,
                           request_search_results |->
                               ScanLines(EntryAt(p).lines).matches]

\* a walk that is over, on a tree with a file over the cap and a file of
\* the size of the cap: one warning and one result
C10_Witness ==
    /\ pc = "done"
    /\ Len(results) = 1
    /\ \E p \in Oversize : \E q \in AtTheCap :
          /\ Cardinality(IgnoredLines(p)) = 1
          /\ q \in OpenedPaths
          /\ results[1].file_name = EntryAt(q).name

\* a regular file whose name does not end with Controller.java
IsOtherFile(path) ==
    /\ path # <<>>
    /\ EntryAt(path).kind = "file"
    /\ ~EndsWithControllerJava(EntryAt(path).name)

\* C11: a regular file whose name does not end with the controller suffix
\* is skipped silently whatever its size: it is not opened, no line of the
\* output and no panic is about it, and no result bears its name
C11_OtherNameIsSkippedSilently ==
    /\ \A k \in 1..Len(opened) : ~IsOtherFile(opened[k])
    /\ \A k \in 1..Len(stdout) :
          stdout[k].msg # "result" => ~IsOtherFile(stdout[k].file)
    /\ (pc = "panic" /\ stack # <<>>) => ~IsOtherFile(CurPath)
    /\ \A k \in 1..Len(results) :
          EndsWithControllerJava(results[k].file_name)

\* the walker is at a file with a recoverable condition: a file over the cap,
\* or a controller file within the cap that is opened and cannot be read
AtRecoverable ==
    /\ AtEntry
    /\ EntryAt(CurPath).kind = "file"
    /\ EntryAt(CurPath).io # "metadata_err"
    /\ \/ EntryAt(CurPath).len > 8 * 1024 * 1024
       \/ /\ EndsWithControllerJava(EntryAt(CurPath).name)
          /\ EntryAt(CurPath).io = "read_err"

\* C12: the step taken at a file over the cap or at a file that cannot be
\* read does not abort: it writes one line about the file, adds no result,
\* keeps the results of every active call as they are, and moves the loop to
\* the next entry of the directory
C12_RecoverableDoesNotAbort ==
    [][AtRecoverable =>
         /\ pc' = "walk"
         /\ panic_msg' = panic_msg
         /\ Len(stdout') = Len(stdout) + 1
         /\ SubSeq(stdout', 1, Len(stdout)) = stdout
         /\ stdout'[Len(stdout')].msg \in {"Ignoring file", "Could not read file"}
         /\ stdout'[Len(stdout')].file = CurPath
         /\ results' = results
         /\ Len(stack') = Len(stack)
         /\ \A k \in 1..Len(stack) :
               /\ stack'[k].file_search_results = stack[k].file_search_results
               /\ stack'[k].entries = stack[k].entries
               /\ stack'[k].i = IF k = Len(stack) THEN stack[k].i + 1
                                ELSE stack[k].i]_vars

\* a walk that is over on a directory of three files: one scanned, then one
\* that cannot be read, then one over the cap; the result of the first is
\* rendered after the two lines about the others
C12_Witness ==
    /\ pc = "done"
    /\ Len(root.entries) = 3
    /\ Scannable(<<1>>)
    /\ EndsWithControllerJava(EntryAt(<<2>>).name)
    /\ EntryAt(<<2>>).io = "read_err"
    /\ <<3>> \in Oversize
    /\ Len(results) = 1
    /\ Len(stdout) = 3
    /\ stdout[1].msg = "Could not read file"
    /\ stdout[2].msg = "Ignoring file"
    /\ stdout[3] = [msg |-> "result", file |-> results[1]]

\* a line with an annotation name, closed by '(', that the dictionary of
\* section 6 does not hold
UnknownAnnotation(l) ==
    PassesPrecondition(l) /\ HasParen(l) /\ SpecVerb(NameToken(l)) = "none"

\* the run is about to meet a fatal condition: main is to read a root that
\* cannot be read, or the walker is at a directory to enter that cannot be
\* read, at a file without metadata, at a controller file that cannot be
\* opened, or at a controller file with an unknown annotation
AtFatal ==
    \/ pc = "setup" /\ ~EntryAt(<<>>).readable
    \/ /\ AtEntry
       /\ \/ /\ EntryAt(CurPath).kind = "dir"
             /\ ~StartsWithDot(EntryAt(CurPath).name)
             /\ ~EntryAt(CurPath).readable
          \/ /\ EntryAt(CurPath).kind = "file"
             /\ EntryAt(CurPath).io = "metadata_err"
          \/ /\ IsControllerFile(CurPath)
             /\ EntryAt(CurPath).len <= 8 * 1024 * 1024
             /\ EntryAt(CurPath).io = "open_err"
          \/ /\ Scannable(CurPath)
             /\ \E k \in 1..Len(EntryAt(CurPath).lines) :
                   UnknownAnnotation(EntryAt(CurPath).lines[k])

ResultLines == {k \in 1..Len(stdout) : stdout[k].msg = "result"}

\* C13: the step taken at a fatal condition, at any depth, ends the run with
\* a message and prints nothing; a run that has ended so takes no other step,
\* has given no result to main and has printed none: results are printed
\* only when the whole walk has returned
C13_FatalDiscardsResults ==
    /\ [](pc = "panic" => panic_msg # <<>> /\ results = <<>> /\ ResultLines = {})
    /\ [](ResultLines # {} => pc = "done")
    /\ [][/\ pc # "panic"
          /\ AtFatal => pc' = "panic" /\ panic_msg' # <<>>
                          /\ stdout' = stdout /\ results' = results]_vars

\* a run ended by an unknown annotation in a subdirectory, after a file of
\* the root has been scanned and its result pushed
C13_Witness ==
    /\ pc = "panic"
    /\ Len(stack) = 2
    /\ stack[1].file_search_results # <<>>
    /\ Scannable(CurPath)
    /\ \E k \in 1..Len(EntryAt(CurPath).lines) :
          UnknownAnnotation(EntryAt(CurPath).lines[k])
    /\ results = <<>>
    /\ ResultLines = {}

(***************************************************************************)
(* The run as a function of the tree: what a line gives is a function of   *)
(* the line, what a file gives a function of its lines, what a directory   *)
(* gives a function of its entries in the order of their enumeration.      *)
(***************************************************************************)
NoAbort(report) == [abort |-> FALSE, msg |-> <<>>, report |-> report]
Abort(msg) == [abort |-> TRUE, msg |-> msg, report |-> <<>>]

RECURSIVE MatchesOfLines(_)
\* the matches of the lines of a file, each line parsed on its own
MatchesOfLines(lines) ==
    IF lines = <<>> THEN NoAbort(<<>>)
    ELSE IF ~PassesPrecondition(Head(lines)) THEN MatchesOfLines(Tail(lines))
    ELSE IF ParseLine(Head(lines)).panicked
         THEN Abort(ParseLine(Head(lines)).str_buffer)
    ELSE LET rest == MatchesOfLines(Tail(lines))
         IN  IF rest.abort THEN rest
             ELSE NoAbort(<<MatchOf(ParseLine(Head(lines)))>> \o rest.report)

\* the matches of the lines of each entry of FileSystem
MatchesOfFile == [id \in LeafIds |-> MatchesOfLines(FileSystem[id].lines)]

\* what a file gives, from what the file system answers about it
OutcomeOfFile(e, found) ==
    IF e.io = "metadata_err" THEN Abort(<<"Could not read metadata from file">>)
    ELSE IF e.len > 8 * 1024 * 1024 \/ ~EndsWithControllerJava(e.name)
         THEN NoAbort(<<>>)
    ELSE IF e.io = "open_err" THEN Abort(<<"Could not open file">>)
    ELSE IF e.io = "read_err" THEN NoAbort(<<>>)
    ELSE IF found.abort THEN found
    ELSE NoAbort(<<[file_name |-> e.name,
                    request_search_results |-> found.report]>>)

RECURSIVE OutcomeOfEntries(_)
\* what the entries of a directory give, in the order of their enumeration
OutcomeOfEntries(entries) ==
    IF entries = <<>> THEN NoAbort(<<>>)
    ELSE LET e == Info(Head(entries))
             first ==
                 CASE e.kind = "file" ->
                          OutcomeOfFile(e, MatchesOfFile[Head(entries).id])
                   [] e.kind = "dir" /\ StartsWithDot(e.name) -> NoAbort(<<>>)
                   [] e.kind = "dir" /\ ~StartsWithDot(e.name) ->
                          IF e.readable
                          THEN OutcomeOfEntries(Head(entries).entries)
                          ELSE Abort(<<"Could not map 'mapdir' directory">>)
                   [] OTHER -> NoAbort(<<>>)
         IN  IF first.abort THEN first
             ELSE LET rest == OutcomeOfEntries(Tail(entries))
                  IN  IF rest.abort THEN rest
                      ELSE NoAbort(first.report \o rest.report)

\* what a run on the tree gives
OutcomeOfTree ==
    IF EntryAt(<<>>).readable THEN OutcomeOfEntries(root.entries)
    ELSE Abort(<<"Could not map 'mapdir' directory">>)

\* C14: the outcome of a run is a function of the tree and of the order of
\* its entries: every run that returns gives main the same results, every
\* run that aborts aborts with the same message, what is printed for the
\* results is the same, and every match is the one its line gives when
\* parsed on its own, from the initial state of the automaton
C14_RunIsAFunctionOfTheTree ==
    /\ Returned => ~OutcomeOfTree.abort /\ results = OutcomeOfTree.report
    /\ pc = "panic" => OutcomeOfTree.abort /\ panic_msg = OutcomeOfTree.msg
    /\ pc = "done" =>
          SelectSeq(stdout, LAMBDA o : o.msg = "result")
              = [k \in 1..Len(OutcomeOfTree.report) |->
                    [msg |-> "result", file |-> OutcomeOfTree.report[k]]]

\* a run that is over on a tree with the same file in the root and in a
\* subdirectory: the two results are the same, and the verbs of the two
\* annotations of the file differ
C14_Witness ==
    /\ pc = "done"
    /\ Len(results) = 2
    /\ results[1] = results[2]
    /\ Len(results[1].request_search_results) = 2
    /\ results[1].request_search_results[1].http_verb
          # results[1].request_search_results[2].http_verb
    /\ \E p \in PathsIn(root) : Len(p) = 2 /\ p \in OpenedPaths

\* the place of a state in AnnotationName -> AnnotationAttributes ->
\* EndpointPath -> EOC
Rank(context) ==
    CASE context = "AnnotationName" -> 1
      [] context = "AnnotationAttributes" -> 2
      [] context = "EndpointPath" -> 3
      [] context = "EOC" -> 4

\* C15: a step of the parse of a line leaves the state of the automaton as
\* it is or moves it to the state that follows it, and a step taken in EOC
\* changes neither the state, nor the verb, nor the path
C15_StatesMoveForward ==
    [][/\ Rank(cur_context') \in {Rank(cur_context), Rank(cur_context) + 1}
       /\ cur_context = "EOC" =>
             /\ cur_context' = "EOC"
             /\ http_verb' = http_verb
             /\ endpoint_path' = endpoint_path]_vars

\* a line parsed to its end whose path was closed two characters or more
\* before: the automaton went through the four states and took steps in EOC
C15_Witness ==
    /\ pc = "next"
    /\ cur_context = "EOC"
    /\ index = Len(line)
    /\ endpoint_path # <<>>
    /\ Len(line) >= NextQuote(line) + 2
    /\ prev_c # "\""

\* the automaton has just read the first double-quote after the opening one,
\* and the two characters before it are two backslashes that no backslash
\* precedes
ReadQuoteAfterTwoBackslashes ==
    /\ pc \in {"chars", "next"}
    /\ HasParen(line)
    /\ index = NextQuote(line)
    /\ index >= OpenQuote(line) + 3
    /\ line[index - 1] = "\\"
    /\ line[index - 2] = "\\"
    /\ line[index - 3] # "\\"

\* C16: in EndpointPath, after two backslashes and a double-quote, the
\* automaton is still in EndpointPath and the last two characters copied are
\* one backslash and the quote
C16_QuoteAfterTwoBackslashesIsCopied ==
    ReadQuoteAfterTwoBackslashes =>
      /\ cur_context = "EndpointPath"
      /\ Len(str_buffer) >= 2
      /\ str_buffer[Len(str_buffer) - 1] = "\\"
      /\ str_buffer[Len(str_buffer)] = "\""

\* what one entry of a directory adds to the results of the directory: the
\* result of a file that is scanned, all the results of a subdirectory that
\* is entered, nothing otherwise
ReportOfNode(node) == OutcomeOfEntries(<<node>>).report

RECURSIVE Flatten(_)
\* the concatenation of a sequence of sequences
Flatten(seqs) ==
    IF seqs = <<>> THEN <<>> ELSE Head(seqs) \o Flatten(Tail(seqs))

\* what the first n entries add, in the order of their enumeration
ReportOfFirst(entries, n) ==
    Flatten([k \in 1..n |-> ReportOfNode(entries[k])])

\* C17: the results a call of search_in_dir holds are, at every entry of its
\* loop, the concatenation in the order of enumeration of what the entries
\* before add: one result per file scanned and, at the place of a
\* subdirectory entered, all the results of that subdirectory; what main is
\* given is that concatenation over all the entries of the root
C17_ReportIsConcatenation ==
    /\ pc = "walk" =>
          \A k \in 1..Len(stack) :
              stack[k].file_search_results
                  = ReportOfFirst(stack[k].entries, stack[k].i - 1)
    /\ Returned => results = ReportOfFirst(root.entries, Len(root.entries))

\* a run that is over on a root with a file scanned, then a subdirectory
\* with a file scanned: the results are those of the two files, the file of
\* the root first
C17_Witness ==
    /\ pc = "done"
    /\ Len(root.entries) = 2
    /\ Scannable(<<1>>)
    /\ Len(root.entries[2].entries) = 1
    /\ Scannable(<<2, 1>>)
    /\ EntryAt(<<1>>).name # EntryAt(<<2, 1>>).name
    /\ Len(results) = 2
    /\ results[1].file_name = EntryAt(<<1>>).name
    /\ results[2].file_name = EntryAt(<<2, 1>>).name

\* a directory the walker enters and returns from
IsEntered(node) ==
    /\ Info(node).kind = "dir"
    /\ ~StartsWithDot(Info(node).name)
    /\ Info(node).readable

RECURSIVE StepsFor(_)
\* the steps the walker takes on a sequence of entries when nothing aborts:
\* one per entry, and for a directory entered those of its entries and the
\* return
StepsFor(entries) ==
    IF entries = <<>> THEN 0
    ELSE (IF IsEntered(Head(entries))
          THEN 2 + StepsFor(Head(entries).entries) ELSE 1)
         + StepsFor(Tail(entries))

RECURSIVE StepsLeftFrom(_)
\* the steps left to the k first calls of the stack: for each call those of
\* the entries it has not come to yet, and its return
StepsLeftFrom(k) ==
    IF k = 0 THEN 0
    ELSE LET f == stack[k]
             first == IF k = Len(stack) THEN f.i ELSE f.i + 1
         IN  1 + StepsFor(SubSeq(f.entries, first, Len(f.entries)))
               + StepsLeftFrom(k - 1)

StepsLeft == StepsLeftFrom(Len(stack))

Ended == pc \in {"done", "panic"}

\* C18: every step of the walk either aborts the run or takes one off the
\* steps that are left, which are one per entry of each directory entered
\* and one return per directory: no directory is enumerated twice, no entry
\* is processed twice; and a run that is not stopped from outside ends, with
\* the results printed or with an abort
C18_ScanEnds ==
    /\ [][pc = "walk" =>
            \/ pc' = "panic"
            \/ StepsLeft' = StepsLeft - 1]_vars
    /\ [](pc = "walk" => StepsLeft > 0)
    /\ (pc = "setup" ~> Ended)

\* a run that is over on a tree of three nodes, with a file scanned below two
\* directories: three calls of search_in_dir were active at once
C18_Witness ==
    /\ pc = "done"
    /\ \E p \in OpenedPaths : Len(p) = 3
    /\ Len(results) = 1

NoBackslashNoQuote(text) ==
    \A k \in 1..Len(text) : text[k] # "\\" /\ text[k] # "\""

C20_MatchCarriesDictionaryVerb ==
    (pc = "next" /\ request_search_results # <<>>) =>
      /\ SpecVerb(NameToken(line)) # "none"
      /\ \A k \in 1..Len(request_search_results) :
            request_search_results[k].http_verb = SpecVerb(NameToken(line))

====
